---- MODULE Spec2Model ----
(***************************************************************************)
(* Model of the question-answering pipeline of quote_your_bs:              *)
(*   QueryVariation  (src/src/runnables/query_variation.py)                *)
(*   MessageRetrieval (src/src/runnables/retrieval.py)                     *)
(*   FormulateAnswer (src/src/runnables/answer.py)                         *)
(* One run threads a context dict through the stages.  The vector store    *)
(* and the chat model are the environment: a call returns a value drawn    *)
(* from a bounded set, or raises.                                          *)
(***************************************************************************)
EXTENDS Integers, Sequences, FiniteSets, TLC

(***************************************************************************)
(* Bounds of the model.                                                    *)
(***************************************************************************)
MaxVars == 2      \* longest list of query variations the chat model returns
MaxK == 2         \* largest max_returned_search
MaxPool == 3      \* most tuples the searches of one run return in all
MaxTopK == 2      \* largest top_k_results
MaxE2EScore == 8  \* largest score (in tenths) of a chunk of the scenario index
MaxRequests == 2  \* requests running concurrently through one MessageRetrieval
MaxEmbedCalls == 2  \* calls of the embedding methods in one run
MaxChunkSize == 2   \* largest chunk_size of an embedding call
MaxChunks == 4      \* most chunks the splitter returns in one ingestion run
MaxDirs == 2        \* most allowed directories of a loader
MaxFiles == 2       \* most paths the glob of one directory returns
MaxPaths == 3       \* most paths the globs of one traversal return in all

(***************************************************************************)
(* Program constants.                                                      *)
(***************************************************************************)
DefaultMaxReturnedSearch == 10
DefaultTopKResults == 20

\* Keys of the context dict and of a document's metadata (src.constants).
QUESTION == "question"
QUERY_VARIATIONS == "query_variations"
RETRIEVED_MESSAGES == "retrieved_messages"
ANSWER == "answer"
SOURCE == "source"
CHAT_ID == "chat_id"
THREAD_PATH == "thread_path"
MESSAGES == "messages"

\* The sentence the system prompt of answer formulation asks for.
RefusalSentence == "I'm sorry, but I don't have enough information to answer that question."

(***************************************************************************)
(* Input universes.  Scores are distances in tenths (9 is 0.9).            *)
(***************************************************************************)
Queries == {"a", "b"}
Questions == {"b"}   \* the question may itself come back as a variation
Sources == {"conv1-4", "conv1-5"}
Scores == {1, 2, 9}
Answers == {RefusalSentence, "You discussed it on Monday."}

\* page_content of the chunk stored under a source id.
PageContent(s) ==
    CASE s = "conv1-4" -> "rings"
      [] s = "conv1-5" -> "shop"
      [] OTHER -> "other"

\* langchain Document as the stages use it: page_content and metadata[SOURCE].
Document(s) == [page_content |-> PageContent(s), metadata |-> [source |-> s]]

\* Sequences over S of length at most n.
SeqUpTo(S, n) == UNION {[1..m -> S] : m \in 0..n}

Min(a, b) == IF a <= b THEN a ELSE b
Max(a, b) == IF a >= b THEN a ELSE b

(***************************************************************************)
(* Python primitives the stages use.                                       *)
(***************************************************************************)
\* Variant with a defect: the cut is one too long.
PySliceOffByOne(seq, n) == SubSeq(seq, 1, Min(n + 1, Len(seq)))

\* seq[:n] for any integer n (a negative n counts from the end).
PySlice(seq, n) ==
    IF n >= 0 THEN SubSeq(seq, 1, Min(n, Len(seq)))
    ELSE SubSeq(seq, 1, Max(Len(seq) + n, 0))

\* Variant with a defect: the returned dict holds the new entry only.
PyDictLiteralAlone(key, value, input_) == [x \in {key} |-> value]

\* {key: value, **input_}: entries of input_ are written after key, so a key
\* already in input_ keeps input_'s value.
PyDictLiteral(key, value, input_) ==
    [x \in (DOMAIN input_) \cup {key} |->
        IF x \in DOMAIN input_ THEN input_[x] ELSE value]

\* d[key] = value.
PySetItem(d, key, value) ==
    [x \in (DOMAIN d) \cup {key} |-> IF x = key THEN value ELSE d[x]]

\* input_.get(key, default)
PyGet(input_, key, default) ==
    IF key \in DOMAIN input_ THEN input_[key] ELSE default

\* sep.join(strs)
RECURSIVE PyJoin(_, _)
PyJoin(sep, strs) ==
    IF Len(strs) = 0 THEN ""
    ELSE IF Len(strs) = 1 THEN strs[1]
    ELSE strs[1] \o sep \o PyJoin(sep, Tail(strs))

(***************************************************************************)
(* MessageRetrieval._process_documents.  An element of all_retrieved_docs  *)
(* is the tuple <<doc, score>>.                                            *)
(***************************************************************************)
\* lines 44-49: keep the first tuple of every source, in list order.
RECURSIVE DedupFrom(_, _)
DedupFrom(docs, seen_sources) ==
    IF docs = <<>> THEN <<>>
    ELSE LET src == Head(docs)[1].metadata[SOURCE]
         IN  IF src \notin seen_sources
             THEN <<Head(docs)>> \o DedupFrom(Tail(docs), seen_sources \cup {src})
             ELSE DedupFrom(Tail(docs), seen_sources)

\* Variants of the deduplication with a defect, used to test the properties.
\* No deduplication at all.
DeduplicateKeepAll(all_retrieved_docs) == all_retrieved_docs

\* The last tuple of every source is kept, at the place of the first.
DeduplicateLastSeen(all_retrieved_docs) ==
    LET firsts == DedupFrom(all_retrieved_docs, {})
        LastOf(s) ==
            all_retrieved_docs[CHOOSE n \in 1..Len(all_retrieved_docs) :
                /\ all_retrieved_docs[n][1].metadata[SOURCE] = s
                /\ \A m \in (n + 1)..Len(all_retrieved_docs) :
                       all_retrieved_docs[m][1].metadata[SOURCE] # s]
    IN  [j \in 1..Len(firsts) |-> LastOf(firsts[j][1].metadata[SOURCE])]

\* The best-scored tuple of every source is kept, at the place of the first.
DeduplicateBestSeen(all_retrieved_docs) ==
    LET firsts == DedupFrom(all_retrieved_docs, {})
        BestOf(s) ==
            all_retrieved_docs[CHOOSE n \in 1..Len(all_retrieved_docs) :
                /\ all_retrieved_docs[n][1].metadata[SOURCE] = s
                /\ \A m \in 1..Len(all_retrieved_docs) :
                       all_retrieved_docs[m][1].metadata[SOURCE] = s
                           => all_retrieved_docs[n][2] <= all_retrieved_docs[m][2]]
    IN  [j \in 1..Len(firsts) |-> BestOf(firsts[j][1].metadata[SOURCE])]

Deduplicate(all_retrieved_docs) == DedupFrom(all_retrieved_docs, {})

\* list.sort(key=lambda x: x[1]): ascending and stable.
\* Variant with a defect: the comparison is reversed (descending order).
RECURSIVE InsertByScoreDescending(_, _)
InsertByScoreDescending(sorted, t) ==
    IF sorted = <<>> THEN <<t>>
    ELSE IF Head(sorted)[2] >= t[2]
         THEN <<Head(sorted)>> \o InsertByScoreDescending(Tail(sorted), t)
         ELSE <<t>> \o sorted

RECURSIVE InsertByScore(_, _)
InsertByScore(sorted, t) ==
    IF sorted = <<>> THEN <<t>>
    ELSE IF Head(sorted)[2] <= t[2]
         THEN <<Head(sorted)>> \o InsertByScore(Tail(sorted), t)
         ELSE <<t>> \o sorted

\* Variant with a defect: the sort is missing.
SortByScoreMissing(docs) == docs

RECURSIVE SortByScore(_)
SortByScore(docs) ==
    IF docs = <<>> THEN <<>>
    ELSE InsertByScore(SortByScore(SubSeq(docs, 1, Len(docs) - 1)), docs[Len(docs)])

\* line 53: the tuples kept after the sort and the cut.
TopDocs(all_retrieved_docs, top_k) ==
    PySlice(SortByScore(Deduplicate(all_retrieved_docs)), top_k)

\* line 55: the documents of the tuples.
ExtractDocs(tuples) == [j \in 1..Len(tuples) |-> tuples[j][1]]

ProcessDocuments(all_retrieved_docs, top_k) ==
    ExtractDocs(TopDocs(all_retrieved_docs, top_k))

(***************************************************************************)
(* State of one run.                                                       *)
(***************************************************************************)
VARIABLES
    top_k_results,        \* MessageRetrieval.top_k_results
    max_returned_search,  \* MessageRetrieval.max_returned_search
    mode,                 \* "sync": the stages run through invoke; "async": ainvoke
    stage,                \* the stage the run is in, or "Done" / "Failed"
    error,                \* the stage whose external call raised, "none" otherwise
    ctx,                  \* the context dict handed from stage to stage
    i,                    \* MessageRetrieval: iterations of the search loop completed
    all_retrieved_docs,   \* MessageRetrieval: the pooled <<doc, score>> tuples
    top_docs,             \* _process_documents: the tuples kept (doc with its score)
    calls,                \* similarity searches issued on the vector store, in order
    llm_requests,         \* requests sent to the chat model, in order
    input_after,          \* the mapping the stage call that ended last was given,
                          \* as that call left it
    output                \* <<stage, value>>: the value the stage that returned last
                          \* computed for its own field

(***************************************************************************)
(* State of the other parts of the program.                                *)
(***************************************************************************)
VARIABLES
    requests,     \* concurrent MessageRetrieval.ainvoke calls: request -> its locals
    embed_log,    \* NomicEmbeddings: the calls made and what each sent to the endpoint
    texts,        \* ingestion.py: the chunks (their metadata), in order
    enum_i,       \* ingestion.py: chunks given a source id so far
    data_dir,     \* MetaMessengerLoader: the allowed directories and their files
    dir_i,        \* lazy_load: allowed directories done
    file_i,       \* lazy_load: files of the current directory done
    yielded,      \* lazy_load: the documents yielded, in order
    logged        \* lazy_load: the files logged as failed, in order

async_vars == <<requests>>
embed_vars == <<embed_log>>
ingest_vars == <<texts, enum_i>>
loader_vars == <<data_dir, dir_i, file_i, yielded, logged>>

AsyncIdle == requests = <<>>
EmbedIdle == embed_log = <<>>
IngestIdle == texts = <<>> /\ enum_i = 0
LoaderIdle ==
    /\ data_dir = <<>>
    /\ dir_i = 0
    /\ file_i = 0
    /\ yielded = <<>>
    /\ logged = <<>>

\* A step of the pipeline leaves the other parts alone, and they are idle in
\* a run of the pipeline.
other_vars == <<async_vars, embed_vars, ingest_vars, loader_vars>>
OthersIdle == AsyncIdle /\ EmbedIdle /\ IngestIdle /\ LoaderIdle

pipeline_vars == <<top_k_results, max_returned_search, mode, stage, error, ctx, i,
                   all_retrieved_docs, top_docs, calls, llm_requests, input_after, output>>

vars == <<pipeline_vars, other_vars>>

Stages == {"Expanding", "Retrieving", "Synthesizing"}
Modes == {"sync", "async"}

\* What one similarity search asking for k neighbours may return when `pooled`
\* tuples were returned before: any list of at most k <<doc, score>> tuples.
ScoredCandidates == {<<Document(s), sc>> : s \in Sources, sc \in Scores}
SearchResults(k, pooled) == SeqUpTo(ScoredCandidates, Min(k, MaxPool - pooled))

\* A stage (or the whole pipeline, from Expanding) is invoked on a context
\* holding the question.
Init ==
    /\ top_k_results \in 0..MaxTopK
    /\ max_returned_search \in 1..MaxK
    /\ mode \in Modes
    /\ stage \in Stages
    /\ error = "none"
    /\ ctx \in {[x \in {QUESTION} |-> q] : q \in Questions}
    /\ i = 0
    /\ all_retrieved_docs = <<>>
    /\ top_docs = <<>>
    /\ calls = <<>>
    /\ llm_requests = <<>>
    /\ input_after = <<>>
    /\ output = <<>>
    /\ OthersIdle

(***************************************************************************)
(* QueryVariation.invoke / ainvoke                                         *)
(***************************************************************************)
\* The chat model answers with a QueryVariationOutput.
QueryVariationReturns(m) ==
    /\ stage = "Expanding"
    /\ mode = m
    /\ LET query == PyGet(ctx, QUESTION, "")
       IN  /\ llm_requests' = Append(llm_requests, [stage |-> "Expanding", human |-> query])
           /\ \E response \in SeqUpTo(Queries, MaxVars) :
                  /\ ctx' = PyDictLiteral(QUERY_VARIATIONS, response, ctx)
                  /\ output' = <<"Expanding", response>>
    /\ input_after' = ctx
    /\ stage' = "Retrieving"
    /\ UNCHANGED other_vars
    /\ UNCHANGED <<top_k_results, max_returned_search, mode, error, i,
                   all_retrieved_docs, top_docs, calls>>

\* Variant with a defect: when the chat model call raises, the question alone
\* is returned as the list of variations.
QueryVariationFallback(m) ==
    /\ stage = "Expanding"
    /\ mode = m
    /\ llm_requests' = Append(llm_requests,
                              [stage |-> "Expanding", human |-> PyGet(ctx, QUESTION, "")])
    /\ ctx' = PyDictLiteral(QUERY_VARIATIONS, <<PyGet(ctx, QUESTION, "")>>, ctx)
    /\ output' = <<"Expanding", <<PyGet(ctx, QUESTION, "")>> >>
    /\ stage' = "Retrieving"
    /\ error' = "Expanding"
    /\ input_after' = ctx
    /\ UNCHANGED other_vars
    /\ UNCHANGED <<top_k_results, max_returned_search, mode, i,
                   all_retrieved_docs, top_docs, calls>>

\* The chat model call raises (unreachable, or output not matching the schema).
QueryVariationRaises(m) ==
    /\ stage = "Expanding"
    /\ mode = m
    /\ llm_requests' = Append(llm_requests,
                              [stage |-> "Expanding", human |-> PyGet(ctx, QUESTION, "")])
    /\ stage' = "Failed"
    /\ error' = "Expanding"
    /\ input_after' = ctx
    /\ UNCHANGED other_vars
    /\ UNCHANGED <<output, top_k_results, max_returned_search, mode, ctx, i,
                   all_retrieved_docs, top_docs, calls>>

QueryVariationInvoke == QueryVariationReturns("sync") \/ QueryVariationRaises("sync")
QueryVariationAinvoke == QueryVariationReturns("async") \/ QueryVariationRaises("async")

(***************************************************************************)
(* MessageRetrieval.invoke / ainvoke                                       *)
(***************************************************************************)
\* Variants with a defect: the literal question is searched for when no
\* variation is given; the literal question is always searched for first.
QueryVariationsOrQuestion(input_) ==
    IF PyGet(input_, QUERY_VARIATIONS, <<>>) = <<>>
    THEN <<PyGet(input_, QUESTION, "")>>
    ELSE PyGet(input_, QUERY_VARIATIONS, <<>>)

QueryVariationsAndQuestion(input_) ==
    <<PyGet(input_, QUESTION, "")>> \o PyGet(input_, QUERY_VARIATIONS, <<>>)

\* line 76 / 107
QueryVariationsOf(input_) == PyGet(input_, QUERY_VARIATIONS, <<>>)

\* One iteration of the loop: one search, its result (one of `results`)
\* appended to the pool.
RetrievalSearchFrom(m, results) ==
    /\ stage = "Retrieving"
    /\ mode = m
    /\ i < Len(QueryVariationsOf(ctx))
    /\ LET query == QueryVariationsOf(ctx)[i + 1]
       IN  calls' = Append(calls, [query |-> query, k |-> max_returned_search])
    /\ \E docs \in results : all_retrieved_docs' = all_retrieved_docs \o docs
    /\ i' = i + 1
    /\ UNCHANGED other_vars
    /\ UNCHANGED <<top_k_results, max_returned_search, mode, stage, error, ctx,
                   top_docs, llm_requests, input_after, output>>

RetrievalSearch(m) ==
    RetrievalSearchFrom(m, SearchResults(max_returned_search, Len(all_retrieved_docs)))

\* Variant with a defect: the exception of a search is caught and the loop
\* goes on with the next variation.
RetrievalSearchSwallowed(m) ==
    /\ stage = "Retrieving"
    /\ mode = m
    /\ i < Len(QueryVariationsOf(ctx))
    /\ LET query == QueryVariationsOf(ctx)[i + 1]
       IN  calls' = Append(calls, [query |-> query, k |-> max_returned_search])
    /\ i' = i + 1
    /\ error' = "Retrieving"
    /\ UNCHANGED other_vars
    /\ UNCHANGED <<input_after, output, top_k_results, max_returned_search, mode, stage, ctx,
                   all_retrieved_docs, top_docs, llm_requests>>

\* The search of the current iteration raises: invoke ends with the exception.
RetrievalSearchRaises(m) ==
    /\ stage = "Retrieving"
    /\ mode = m
    /\ i < Len(QueryVariationsOf(ctx))
    /\ LET query == QueryVariationsOf(ctx)[i + 1]
       IN  calls' = Append(calls, [query |-> query, k |-> max_returned_search])
    /\ stage' = "Failed"
    /\ error' = "Retrieving"
    /\ input_after' = ctx
    /\ UNCHANGED other_vars
    /\ UNCHANGED <<output, top_k_results, max_returned_search, mode, ctx, i,
                   all_retrieved_docs, top_docs, llm_requests>>

\* The loop is over: _process_documents and the returned dict.
RetrievalReturn(m) ==
    /\ stage = "Retrieving"
    /\ mode = m
    /\ i = Len(QueryVariationsOf(ctx))
    /\ top_docs' = TopDocs(all_retrieved_docs, top_k_results)
    /\ ctx' = PyDictLiteral(RETRIEVED_MESSAGES,
                            ProcessDocuments(all_retrieved_docs, top_k_results), ctx)
    /\ output' = <<"Retrieving", ProcessDocuments(all_retrieved_docs, top_k_results)>>
    /\ input_after' = ctx
    /\ stage' = "Synthesizing"
    /\ UNCHANGED other_vars
    /\ UNCHANGED <<top_k_results, max_returned_search, mode, error, i,
                   all_retrieved_docs, calls, llm_requests>>

MessageRetrievalInvoke ==
    RetrievalSearch("sync") \/ RetrievalSearchRaises("sync") \/ RetrievalReturn("sync")
MessageRetrievalAinvoke ==
    RetrievalSearch("async") \/ RetrievalSearchRaises("async") \/ RetrievalReturn("async")

(***************************************************************************)
(* FormulateAnswer.invoke (ainvoke is the one inherited from Runnable,     *)
(* which runs invoke)                                                      *)
(***************************************************************************)
\* lines 51-57: what is sent as the human message.
AnswerRequest(input_) ==
    LET retrieved_messages == PyGet(input_, RETRIEVED_MESSAGES, <<>>)
        question == PyGet(input_, QUESTION, "")
        messages_content ==
            PyJoin("\n", [j \in 1..Len(retrieved_messages) |->
                              retrieved_messages[j].page_content])
    IN  [stage |-> "Synthesizing",
         human |-> "Question: " \o question \o "\nMessages: " \o messages_content]

FormulateAnswerReturns ==
    /\ stage = "Synthesizing"
    /\ llm_requests' = Append(llm_requests, AnswerRequest(ctx))
    /\ \E answer \in Answers :
           /\ ctx' = PyDictLiteral(ANSWER, answer, ctx)
           /\ output' = <<"Synthesizing", answer>>
    /\ input_after' = ctx
    /\ stage' = "Done"
    /\ UNCHANGED other_vars
    /\ UNCHANGED <<top_k_results, max_returned_search, mode, error, i,
                   all_retrieved_docs, top_docs, calls>>

FormulateAnswerRaises ==
    /\ stage = "Synthesizing"
    /\ llm_requests' = Append(llm_requests, AnswerRequest(ctx))
    /\ stage' = "Failed"
    /\ error' = "Synthesizing"
    /\ input_after' = ctx
    /\ UNCHANGED other_vars
    /\ UNCHANGED <<output, top_k_results, max_returned_search, mode, ctx, i,
                   all_retrieved_docs, top_docs, calls>>

FormulateAnswerInvoke == FormulateAnswerReturns \/ FormulateAnswerRaises

Next ==
    \/ QueryVariationInvoke
    \/ QueryVariationAinvoke
    \/ MessageRetrievalInvoke
    \/ MessageRetrievalAinvoke
    \/ FormulateAnswerInvoke

Spec == Init /\ [][Next]_vars

(***************************************************************************)
(* A pipeline run: the three stages composed, started on the question.     *)
(* Every external call returns or raises, so a run that can step does.     *)
(***************************************************************************)
InitPipeline == Init /\ stage = "Expanding"

\* The course of a run does not depend on which chunks a search returns, only
\* on whether it returns: here a search returns copies of one candidate.
PipelineSearchResults(k, pooled) ==
    SeqUpTo({<<Document("conv1-4"), 2>>}, Min(k, MaxPool - pooled))

PipelineRetrievalInvoke ==
    \/ RetrievalSearchFrom("sync",
                           PipelineSearchResults(max_returned_search, Len(all_retrieved_docs)))
    \/ RetrievalSearchRaises("sync")
    \/ RetrievalReturn("sync")
PipelineRetrievalAinvoke ==
    \/ RetrievalSearchFrom("async",
                           PipelineSearchResults(max_returned_search, Len(all_retrieved_docs)))
    \/ RetrievalSearchRaises("async")
    \/ RetrievalReturn("async")

NextPipeline ==
    \/ QueryVariationInvoke
    \/ QueryVariationAinvoke
    \/ PipelineRetrievalInvoke
    \/ PipelineRetrievalAinvoke
    \/ FormulateAnswerInvoke

SpecPipeline == InitPipeline /\ [][NextPipeline]_vars /\ WF_vars(NextPipeline)

(***************************************************************************)
(* A stage, or the pipeline from that stage on, invoked on any context: it *)
(* holds the question and may already hold a value under any other field.  *)
(***************************************************************************)
\* The ways a field may stand in the context given: <<value>>, or <<>> where
\* the context has no such field.
GivenVariations == {<<>>, << <<>> >>, << <<"a", "b">> >>}
GivenMessages == {<<>>, << <<Document("conv1-5")>> >>}
GivenAnswers == {<<>>, <<"An earlier answer.">>}

ContextOf(q, qv, rm, an) ==
    LET held == {QUESTION}
                  \cup (IF qv = <<>> THEN {} ELSE {QUERY_VARIATIONS})
                  \cup (IF rm = <<>> THEN {} ELSE {RETRIEVED_MESSAGES})
                  \cup (IF an = <<>> THEN {} ELSE {ANSWER})
    IN  [x \in held |->
            CASE x = QUESTION -> q
              [] x = QUERY_VARIATIONS -> qv[1]
              [] x = RETRIEVED_MESSAGES -> rm[1]
              [] x = ANSWER -> an[1]]

ContextsGiven ==
    {ContextOf(q, qv, rm, an) :
        q \in Questions, qv \in GivenVariations, rm \in GivenMessages, an \in GivenAnswers}

InitContext ==
    /\ top_k_results \in 0..MaxTopK
    /\ max_returned_search \in 1..MaxK
    /\ mode \in Modes
    /\ stage \in Stages
    /\ error = "none"
    /\ ctx \in ContextsGiven
    /\ i = 0
    /\ all_retrieved_docs = <<>>
    /\ top_docs = <<>>
    /\ calls = <<>>
    /\ llm_requests = <<>>
    /\ input_after = <<>>
    /\ output = <<>>
    /\ OthersIdle

SpecContext == InitContext /\ [][NextPipeline]_vars

\* The field a stage writes (query_variation.py:52, retrieval.py:87, answer.py:67).
OwnField(st) ==
    CASE st = "Expanding" -> QUERY_VARIATIONS
      [] st = "Retrieving" -> RETRIEVED_MESSAGES
      [] st = "Synthesizing" -> ANSWER

(***************************************************************************)
(* MessageRetrieval.ainvoke called by several requests on one instance     *)
(* (retrieval.py:89-118).  The instance holds vector_store,                *)
(* max_returned_search and top_k_results; query_variations,                *)
(* all_retrieved_docs and top_docs are locals of each call.  A call gives  *)
(* up control at `await asimilarity_search_with_score(...)` only, where    *)
(* another request may run, the search may raise, or the task may be       *)
(* cancelled.                                                              *)
(***************************************************************************)
AsyncRequests == 1..MaxRequests

\* query_variations of a request: a prefix of the list of the queries.
AsyncVariations == {<<>>, <<"a">>, <<"a", "b">>}

\* What the store may rank for a query, nearest first.
AsyncRankings ==
    {<<>>,
     << <<Document("conv1-4"), 9>> >>,
     << <<Document("conv1-4"), 1>>, <<Document("conv1-5"), 2>> >>}

AsyncResults(k) == {PySlice(ranked, k) : ranked \in AsyncRankings}

\* The locals of a call at its entry (retrieval.py:107-108); issued, pending
\* and returned_to record which searches the call made and what they returned.
AinvokeEntered(query_variations) ==
    [query_variations |-> query_variations,
     issued |-> {},
     pending |-> {},
     all_retrieved_docs |-> <<>>,
     returned_to |-> <<>>,
     status |-> "running",
     retrieved_messages |-> <<>>]

PipelineIdle ==
    /\ mode = "async"
    /\ stage = "Retrieving"
    /\ error = "none"
    /\ ctx = <<>>
    /\ i = 0
    /\ all_retrieved_docs = <<>>
    /\ top_docs = <<>>
    /\ calls = <<>>
    /\ llm_requests = <<>>
    /\ input_after = <<>>
    /\ output = <<>>

InitAsync ==
    /\ top_k_results \in 0..MaxTopK
    /\ max_returned_search \in 1..MaxK
    /\ PipelineIdle
    /\ requests \in [AsyncRequests -> {AinvokeEntered(qv) : qv \in AsyncVariations}]
    /\ EmbedIdle /\ IngestIdle /\ LoaderIdle

\* Variant with a defect: every search is dispatched at once (as with
\* asyncio.as_completed) and the pool is extended as the searches complete.
IssuableSearchesGathered(req) == (1..Len(req.query_variations)) \ req.issued

\* The searches the for-loop may start: the next variation, once the awaited
\* search of the previous one has returned (retrieval.py:110-114).
IssuableSearches(req) ==
    IF req.pending = {}
    THEN {n \in 1..Len(req.query_variations) : n = Cardinality(req.issued) + 1}
    ELSE {}

\* Variant with a defect: the pool is a list of the instance, shared by the calls.
PoolShared(reqs, r, results) ==
    [q \in DOMAIN reqs |-> [reqs[q] EXCEPT !.all_retrieved_docs = @ \o results]]

\* all_retrieved_docs.extend(results) on the local list of call r (retrieval.py:114).
PoolAfterSearch(reqs, r, results) ==
    [reqs EXCEPT ![r].all_retrieved_docs = @ \o results]

AsyncSearchIssued(r) ==
    /\ requests[r].status = "running"
    /\ \E n \in IssuableSearches(requests[r]) :
          requests' = [requests EXCEPT ![r].issued = @ \cup {n},
                                       ![r].pending = @ \cup {n}]
    /\ UNCHANGED <<pipeline_vars, embed_vars, ingest_vars, loader_vars>>

AsyncSearchReturned(r) ==
    /\ requests[r].status = "running"
    /\ \E n \in requests[r].pending, results \in AsyncResults(max_returned_search) :
          requests' = PoolAfterSearch(
                          [requests EXCEPT ![r].pending = @ \ {n},
                                           ![r].returned_to = Append(@, <<n, results>>)],
                          r, results)
    /\ UNCHANGED <<pipeline_vars, embed_vars, ingest_vars, loader_vars>>

\* The awaited search raises: the exception leaves ainvoke.
AsyncSearchRaises(r) ==
    /\ requests[r].status = "running"
    /\ requests[r].pending # {}
    /\ requests' = [requests EXCEPT ![r].status = "failed"]
    /\ UNCHANGED <<pipeline_vars, embed_vars, ingest_vars, loader_vars>>

\* The task of the request is cancelled while it awaits a search.
AsyncCancelled(r) ==
    /\ requests[r].status = "running"
    /\ requests[r].pending # {}
    /\ requests' = [requests EXCEPT ![r].status = "cancelled"]
    /\ UNCHANGED <<pipeline_vars, embed_vars, ingest_vars, loader_vars>>

\* After the loop: _process_documents and the return (retrieval.py:116-118).
AinvokeReturn(r) ==
    /\ requests[r].status = "running"
    /\ requests[r].pending = {}
    /\ requests[r].issued = 1..Len(requests[r].query_variations)
    /\ requests' = [requests EXCEPT
                       ![r].retrieved_messages =
                           ProcessDocuments(requests[r].all_retrieved_docs, top_k_results),
                       ![r].status = "returned"]
    /\ UNCHANGED <<pipeline_vars, embed_vars, ingest_vars, loader_vars>>

NextAsync ==
    \E r \in AsyncRequests :
        \/ AsyncSearchIssued(r)
        \/ AsyncSearchReturned(r)
        \/ AsyncSearchRaises(r)
        \/ AsyncCancelled(r)
        \/ AinvokeReturn(r)

SpecAsync == InitAsync /\ [][NextAsync]_vars

(***************************************************************************)
(* NomicEmbeddings (src/src/embeddings/nomic.py): what each method hands   *)
(* to the embedding endpoint.  embed_log records, per call, the method,    *)
(* the text(s) given and the batches of strings sent.                      *)
(***************************************************************************)
EmbedTexts == {"", "hi", "search_query: hi"}

\* _prefixed: [f"{prefix}{t}" for t in texts].
Prefixed(txts, prefix) == [n \in 1..Len(txts) |-> prefix \o txts[n]]

\* prefixed_texts[i : i + chunk_size_] for i in range(0, len, chunk_size_).
RECURSIVE Batches(_, _)
Batches(txts, chunk_size_) ==
    IF txts = <<>> THEN <<>>
    ELSE <<SubSeq(txts, 1, Min(chunk_size_, Len(txts)))>>
         \o Batches(SubSeq(txts, Min(chunk_size_, Len(txts)) + 1, Len(txts)), chunk_size_)

\* The strings embed_documents / aembed_documents send: the texts prefixed
\* for the document role, in batches of chunk_size_ when
\* check_embedding_ctx_length is off, else handed as one list to the
\* length-safe embedding function of the base class.
EmbedDocumentsSends(txts, chunk_size_, check_embedding_ctx_length) ==
    LET prefixed_texts == Prefixed(txts, "search_document: ")
    IN  IF ~check_embedding_ctx_length
        THEN Batches(prefixed_texts, chunk_size_)
        ELSE IF prefixed_texts = <<>> THEN <<>> ELSE <<prefixed_texts>>

\* embed_query / aembed_query: the text prefixed for the query role is
\* passed to embed_documents / aembed_documents (nomic.py:98-99, 111-112).
EmbedQuerySends(text, chunk_size_, check_embedding_ctx_length) ==
    EmbedDocumentsSends(Prefixed(<<text>>, "search_query: "),
                        chunk_size_, check_embedding_ctx_length)

InitEmbed ==
    /\ top_k_results = DefaultTopKResults
    /\ max_returned_search = DefaultMaxReturnedSearch
    /\ PipelineIdle
    /\ AsyncIdle /\ IngestIdle /\ LoaderIdle
    /\ embed_log = <<>>

EmbedCall(method, given, sent) ==
    /\ Len(embed_log) < MaxEmbedCalls
    /\ embed_log' = Append(embed_log, [method |-> method, given |-> given, sent |-> sent])
    /\ UNCHANGED <<pipeline_vars, async_vars, ingest_vars, loader_vars>>

EmbedDocuments ==
    \E txts \in SeqUpTo(EmbedTexts, 2), c \in 1..MaxChunkSize, check \in BOOLEAN :
        EmbedCall("embed_documents", txts, EmbedDocumentsSends(txts, c, check))

AembedDocuments ==
    \E txts \in SeqUpTo(EmbedTexts, 2), c \in 1..MaxChunkSize, check \in BOOLEAN :
        EmbedCall("aembed_documents", txts, EmbedDocumentsSends(txts, c, check))

EmbedQuery ==
    \E text \in EmbedTexts, c \in 1..MaxChunkSize, check \in BOOLEAN :
        EmbedCall("embed_query", <<text>>, EmbedQuerySends(text, c, check))

AembedQuery ==
    \E text \in EmbedTexts, c \in 1..MaxChunkSize, check \in BOOLEAN :
        EmbedCall("aembed_query", <<text>>, EmbedQuerySends(text, c, check))

NextEmbed == EmbedDocuments \/ AembedDocuments \/ EmbedQuery \/ AembedQuery

SpecEmbed == InitEmbed /\ [][NextEmbed]_vars

(***************************************************************************)
(* The ingestion script (src/ingestion.py:40-44): the chunks of the loaded *)
(* conversations are numbered by one enumerate over the whole list and     *)
(* each is given metadata["source"].  A thread path is a sequence of       *)
(* one-character strings.                                                  *)
(***************************************************************************)
ThreadPaths ==
    {<<"m", "/", "c">>,
     <<"m", "/", "g", "_", "c", "-", "1">>,
     <<"m", "/", "x", "/", "_", "1">>,
     <<"m", "/", "a", "_", "c", "_", "1">>,
     <<"m", "/", "n", "_", "b", "l", "a", "n", "k">>}

IndexesOf(chars, ch) == {n \in 1..Len(chars) : chars[n] = ch}
LastIndexOf(chars, ch) == CHOOSE n \in IndexesOf(chars, ch) : \A m \in IndexesOf(chars, ch) : m <= n
FirstIndexOf(chars, ch) == CHOOSE n \in IndexesOf(chars, ch) : \A m \in IndexesOf(chars, ch) : n <= m

\* "".join(chars): the string of a sequence of characters.
RECURSIVE StrOf(_)
StrOf(chars) == IF chars = <<>> THEN "" ELSE chars[1] \o StrOf(Tail(chars))

\* extract_chat_id on a thread path holding a "/": the part after the last
\* "/", and of that the part after its first "_" if it has one.
ExtractChatId(thread_path) ==
    LET thread_name == SubSeq(thread_path, LastIndexOf(thread_path, "/") + 1, Len(thread_path))
    IN  IF IndexesOf(thread_name, "_") = {}
        THEN StrOf(thread_name)
        ELSE StrOf(SubSeq(thread_name, FirstIndexOf(thread_name, "_") + 1, Len(thread_name)))

\* Metadata of a chunk before the loop: that of its conversation
\* (extract_conversation_meta), or none for a conversation without valid
\* messages (messenger_loader.py:_parse_file).
ChunkMetadatas ==
    {[x \in {CHAT_ID} |-> ExtractChatId(path)] : path \in ThreadPaths} \cup {<<>>}

DecimalDigit(d) ==
    CASE d = 0 -> "0" [] d = 1 -> "1" [] d = 2 -> "2" [] d = 3 -> "3" [] d = 4 -> "4"
      [] d = 5 -> "5" [] d = 6 -> "6" [] d = 7 -> "7" [] d = 8 -> "8" [] d = 9 -> "9"

\* str(index) for index >= 0.
RECURSIVE Decimal(_)
Decimal(index) ==
    IF index < 10 THEN DecimalDigit(index)
    ELSE Decimal(index \div 10) \o DecimalDigit(index % 10)

\* Variant with a defect: the source id is the conversation id alone.
SourceIdOfChat(metadata, index) == PyGet(metadata, CHAT_ID, "blank")

\* f"{text.metadata.get(CHAT_ID, 'blank')}-{i}" (ingestion.py:44).
SourceId(metadata, index) ==
    PyGet(metadata, CHAT_ID, "blank") \o "-" \o Decimal(index)

InitIngest ==
    /\ top_k_results = DefaultTopKResults
    /\ max_returned_search = DefaultMaxReturnedSearch
    /\ PipelineIdle
    /\ AsyncIdle /\ EmbedIdle /\ LoaderIdle
    /\ texts \in SeqUpTo({[metadata |-> md] : md \in ChunkMetadatas}, MaxChunks)
    /\ enum_i = 0

\* One iteration of `for i, text in enumerate(texts)`; enum_i counts the
\* iterations made, so the chunk handled has i = enum_i.
AssignSource ==
    /\ enum_i < Len(texts)
    /\ texts' = [texts EXCEPT ![enum_i + 1].metadata =
                    PySetItem(@, SOURCE, SourceId(@, enum_i))]
    /\ enum_i' = enum_i + 1
    /\ UNCHANGED <<pipeline_vars, async_vars, embed_vars, loader_vars>>

NextIngest == AssignSource

SpecIngest == InitIngest /\ [][NextIngest]_vars

(***************************************************************************)
(* MetaMessengerLoader.lazy_load (src/src/loaders/messenger_loader.py).    *)
(* data_dir holds, per allowed directory, whether it exists and the paths  *)
(* its glob returns; dir_i and file_i count the directories left behind    *)
(* and the paths of the current directory handled.                         *)
(***************************************************************************)
\* What a path may be: a directory, a file that is not JSON, or a file
\* holding conversation data.
LoaderPaths ==
    {[name |-> "dir.json", is_file |-> FALSE, json |-> FALSE, data |-> <<>>],
     [name |-> "bad.json", is_file |-> TRUE, json |-> FALSE, data |-> <<>>],
     [name |-> "ok.json", is_file |-> TRUE, json |-> TRUE,
      data |-> [messages |-> <<"B (2): yo", "A (1): hi">>,
                thread_path |-> <<"m", "/", "g", "_", "c", "-", "1">>]],
     [name |-> "empty.json", is_file |-> TRUE, json |-> TRUE,
      data |-> [messages |-> <<>>, thread_path |-> <<"m", "/", "c">>]],
     [name |-> "nopath.json", is_file |-> TRUE, json |-> TRUE,
      data |-> [messages |-> <<"A (1): hi">>]],
     [name |-> "noslash.json", is_file |-> TRUE, json |-> TRUE,
      data |-> [messages |-> <<"A (1): hi">>, thread_path |-> <<"c">>]]}

\* A directory that does not exist, or one whose glob returns up to n paths.
LoaderDirs(n) ==
    {[exists |-> FALSE, file_paths |-> <<>>]}
    \cup {[exists |-> TRUE, file_paths |-> fp] : fp \in SeqUpTo(LoaderPaths, n)}

\* The allowed directories of a loader: up to n, of up to paths paths in all.
RECURSIVE LoaderDataDirs(_, _)
LoaderDataDirs(n, paths) ==
    IF n = 0 THEN {<<>>}
    ELSE {<<>>} \cup
         UNION {{<<dir>> \o rest : rest \in LoaderDataDirs(n - 1, paths - Len(dir.file_paths))} :
                    dir \in LoaderDirs(Min(MaxFiles, paths))}

\* The lines of the messages, last message first (messenger_loader.py:72-84);
\* a message is given by its formatted line.
RECURSIVE DocumentText(_)
DocumentText(messages) ==
    IF messages = <<>> THEN ""
    ELSE (messages[Len(messages)] \o "\n")
         \o DocumentText(SubSeq(messages, 1, Len(messages) - 1))

\* _parse_file: the document returned, or the exception raised.
ParseFile(path) ==
    IF ~path.json
    THEN [raised |-> "JSONDecodeError", document |-> <<>>]
    ELSE LET conversation_data == path.data
             messages == PyGet(conversation_data, MESSAGES, <<>>)
             document_text == DocumentText(messages)
         IN  IF document_text = ""
             THEN [raised |-> "none", document |-> [page_content |-> "", metadata |-> <<>>]]
             ELSE IF THREAD_PATH \notin DOMAIN conversation_data
             THEN [raised |-> "KeyError", document |-> <<>>]
             ELSE IF IndexesOf(conversation_data[THREAD_PATH], "/") = {}
             THEN [raised |-> "ValueError", document |-> <<>>]
             ELSE [raised |-> "none",
                   document |-> [page_content |-> document_text,
                                 metadata |-> [x \in {CHAT_ID} |->
                                     ExtractChatId(conversation_data[THREAD_PATH])]]]

InitLoader ==
    /\ top_k_results = DefaultTopKResults
    /\ max_returned_search = DefaultMaxReturnedSearch
    /\ PipelineIdle
    /\ AsyncIdle /\ EmbedIdle /\ IngestIdle
    /\ data_dir \in LoaderDataDirs(MaxDirs, MaxPaths)
    /\ dir_i = 0
    /\ file_i = 0
    /\ yielded = <<>>
    /\ logged = <<>>

\* Variant with a defect: a path that fails ends the loop over the directory.
NextPathAfterFailureBreaks(file_paths, n) == Len(file_paths)

\* The except clauses log and fall through: the for-loop goes on with the
\* path after the n-th (messenger_loader.py:134-137).
NextPathAfterFailure(file_paths, n) == n

\* `continue` on a directory that does not exist or has no JSON paths.
SkipDirectory ==
    /\ dir_i < Len(data_dir)
    /\ LET dir == data_dir[dir_i + 1]
       IN  /\ ~dir.exists \/ dir.file_paths = <<>>
           /\ logged' = Append(logged, [level |-> "warning", about |-> "directory"])
    /\ dir_i' = dir_i + 1
    /\ UNCHANGED <<file_i, yielded, data_dir>>
    /\ UNCHANGED <<pipeline_vars, async_vars, embed_vars, ingest_vars>>

\* One iteration of `for file_path in file_paths`.
HandlePath ==
    /\ dir_i < Len(data_dir)
    /\ LET dir == data_dir[dir_i + 1]
       IN  /\ dir.exists
           /\ file_i < Len(dir.file_paths)
           /\ LET path == dir.file_paths[file_i + 1]
                  parsed == ParseFile(path)
              IN  IF ~path.is_file
                  THEN /\ logged' = Append(logged, [level |-> "warning", about |-> path.name])
                       /\ file_i' = file_i + 1
                       /\ UNCHANGED yielded
                  ELSE IF parsed.raised = "none"
                  THEN /\ yielded' = Append(yielded, parsed.document)
                       /\ file_i' = file_i + 1
                       /\ UNCHANGED logged
                  ELSE /\ logged' = Append(logged, [level |-> "error", about |-> path.name])
                       /\ file_i' = NextPathAfterFailure(dir.file_paths, file_i + 1)
                       /\ UNCHANGED yielded
    /\ UNCHANGED <<dir_i, data_dir>>
    /\ UNCHANGED <<pipeline_vars, async_vars, embed_vars, ingest_vars>>

\* The loop over the paths of a directory is exhausted.
LeaveDirectory ==
    /\ dir_i < Len(data_dir)
    /\ LET dir == data_dir[dir_i + 1]
       IN  /\ dir.exists
           /\ dir.file_paths # <<>>
           /\ file_i = Len(dir.file_paths)
    /\ dir_i' = dir_i + 1
    /\ file_i' = 0
    /\ UNCHANGED <<yielded, logged, data_dir>>
    /\ UNCHANGED <<pipeline_vars, async_vars, embed_vars, ingest_vars>>

NextLoader == SkipDirectory \/ HandlePath \/ LeaveDirectory

SpecLoader == InitLoader /\ [][NextLoader]_vars

(***************************************************************************)
(* The scenario of one variation searched in an index of three chunks:     *)
(* conv1-4 at distance 0.2, the two others farther.  Expansion has         *)
(* returned; retrieval runs with the default configuration.                *)
(***************************************************************************)
E2EQuestion == "Where did we discuss buying rings?"
E2EVariation == "I bought a ring at the jewelry shop yesterday."
E2EChunks == {"conv1-4", "conv1-5", "conv2-0"}

\* The indexes of the scenario: the distance of every chunk to the variation.
E2EIndexes ==
    {f \in [E2EChunks -> 2..MaxE2EScore] :
        /\ f["conv1-4"] = 2
        /\ \A s \in E2EChunks \ {"conv1-4"} : f[s] > 2}

\* similarity_search_with_score(query, k) on an index: its chunks by ascending
\* distance (chunks at the same distance in either order), at most k of them.
NearestNeighbours(index, k) ==
    LET n == Cardinality(DOMAIN index)
        ranked == {r \in [1..n -> {<<Document(s), index[s]>> : s \in DOMAIN index}] :
                      /\ \A a, b \in 1..n : a # b => r[a] # r[b]
                      /\ \A a \in 1..(n - 1) : r[a][2] <= r[a + 1][2]}
    IN  {PySlice(r, k) : r \in ranked}

E2ESearchResults(k) == UNION {NearestNeighbours(f, k) : f \in E2EIndexes}

InitE2E ==
    /\ top_k_results = DefaultTopKResults
    /\ max_returned_search = DefaultMaxReturnedSearch
    /\ mode \in Modes
    /\ stage = "Retrieving"
    /\ error = "none"
    /\ ctx = [x \in {QUESTION, QUERY_VARIATIONS} |->
                 IF x = QUESTION THEN E2EQuestion ELSE <<E2EVariation>>]
    /\ i = 0
    /\ all_retrieved_docs = <<>>
    /\ top_docs = <<>>
    /\ calls = <<>>
    /\ llm_requests = <<>>
    /\ input_after = <<>>
    /\ output = <<>>
    /\ OthersIdle

E2ERetrievalInvoke ==
    \/ RetrievalSearchFrom("sync", E2ESearchResults(max_returned_search))
    \/ RetrievalReturn("sync")
E2ERetrievalAinvoke ==
    \/ RetrievalSearchFrom("async", E2ESearchResults(max_returned_search))
    \/ RetrievalReturn("async")

NextE2E ==
    \/ E2ERetrievalInvoke
    \/ E2ERetrievalAinvoke
    \/ FormulateAnswerInvoke

SpecE2E == InitE2E /\ [][NextE2E]_vars

TypeOK ==
    /\ top_k_results \in 0..MaxTopK \cup {DefaultTopKResults}
    /\ max_returned_search \in 1..MaxK \cup {DefaultMaxReturnedSearch}
    /\ mode \in Modes
    /\ stage \in Stages \cup {"Done", "Failed"}
    /\ error \in Stages \cup {"none"}
    /\ DOMAIN ctx \subseteq {QUESTION, QUERY_VARIATIONS, RETRIEVED_MESSAGES, ANSWER}
    /\ i \in 0..MaxVars

(***************************************************************************)
(* Properties of retrieval.                                                *)
(***************************************************************************)
\* Retrieval has returned: its context holds retrieved_messages.
Retrieved == RETRIEVED_MESSAGES \in DOMAIN ctx
Messages == ctx[RETRIEVED_MESSAGES]
SourceOf(doc) == doc.metadata[SOURCE]
PooledSources == {all_retrieved_docs[n][1].metadata[SOURCE] : n \in 1..Len(all_retrieved_docs)}
PositionsOf(s) == {n \in 1..Len(all_retrieved_docs) : all_retrieved_docs[n][1].metadata[SOURCE] = s}
\* Score of the first pooled occurrence of source s, and its lowest pooled score.
FirstSeenScore(s) ==
    all_retrieved_docs[CHOOSE n \in PositionsOf(s) : \A m \in PositionsOf(s) : n <= m][2]
BestScore(s) ==
    CHOOSE sc \in {all_retrieved_docs[n][2] : n \in PositionsOf(s)} :
        \A n \in PositionsOf(s) : sc <= all_retrieved_docs[n][2]

\* C1: the retrieved_messages a retrieval run returns hold no two documents
\* with the same source id.
DedupInvariant ==
    Retrieved =>
        \A a, b \in 1..Len(Messages) :
            a # b => SourceOf(Messages[a]) # SourceOf(Messages[b])

\* A run that pooled the same source more than once and returned two documents.
DedupWitness ==
    /\ Retrieved
    /\ Len(Messages) = 2
    /\ \E s \in PooledSources : Cardinality(PositionsOf(s)) >= 2

\* C2: the scores recorded for the returned documents (those of the kept
\* occurrences) never decrease along retrieved_messages.
RankInvariant ==
    Retrieved =>
        /\ ExtractDocs(top_docs) = Messages
        /\ \A a \in 1..(Len(top_docs) - 1) : top_docs[a][2] <= top_docs[a + 1][2]

\* A run whose pool was not in ascending order and that returned two documents
\* of different scores.
RankWitness ==
    /\ Retrieved
    /\ Len(top_docs) = 2
    /\ top_docs[1][2] < top_docs[2][2]
    /\ all_retrieved_docs[1][2] > all_retrieved_docs[2][2]

\* C3: retrieved_messages is no longer than top_k_results and no longer than
\* the number of distinct source ids pooled.
CapInvariant ==
    Retrieved =>
        /\ Len(Messages) <= top_k_results
        /\ Len(Messages) <= Cardinality(PooledSources)

\* A run cut by top_k_results: more distinct sources pooled than returned.
CapWitness ==
    /\ Retrieved
    /\ top_k_results >= 1
    /\ Len(Messages) = top_k_results
    /\ Cardinality(PooledSources) > top_k_results

\* C4: with no query_variations field in the context, or an empty list, no
\* similarity search is issued and the returned retrieved_messages is empty.
EmptyVariationsLaw ==
    (QUERY_VARIATIONS \notin DOMAIN ctx \/ ctx[QUERY_VARIATIONS] = <<>>) =>
        /\ calls = <<>>
        /\ Retrieved => Messages = <<>>

\* Retrieval has returned on a context without the field, through ainvoke.
EmptyVariationsWitness ==
    /\ Retrieved
    /\ QUERY_VARIATIONS \notin DOMAIN ctx
    /\ mode = "async"
    /\ Messages = <<>>

\* C5: deduplication is first-seen-wins: every document returned is recorded
\* with the score of the first pooled occurrence of its source, also when a
\* later occurrence has a lower score.
FirstSeenWins ==
    Retrieved =>
        \A a \in 1..Len(top_docs) :
            /\ top_docs[a][1] = Messages[a]
            /\ top_docs[a][2] = FirstSeenScore(SourceOf(top_docs[a][1]))

\* Variations a, b; the first search returns X with 0.9, the second X with
\* 0.1: X is returned with 0.9.
FirstSeenWinsWitness ==
    /\ Retrieved
    /\ PyGet(ctx, QUERY_VARIATIONS, <<>>) = <<"a", "b">>
    /\ all_retrieved_docs = << <<Document("conv1-4"), 9>>, <<Document("conv1-4"), 1>> >>
    /\ top_docs = << <<Document("conv1-4"), 9>> >>

\* C6 as stated: retrieved_messages is ordered ascending by the lowest score
\* pooled for each source.
OrderedByBestScore ==
    Retrieved =>
        \A a, b \in 1..Len(Messages) :
            a < b => BestScore(SourceOf(Messages[a])) <= BestScore(SourceOf(Messages[b]))

\* C6 as amended: retrieved_messages is ordered ascending by the score of the
\* first pooled occurrence of each source.
OrderedByFirstSeenScore ==
    Retrieved =>
        \A a, b \in 1..Len(Messages) :
            a < b => FirstSeenScore(SourceOf(Messages[a]))
                         <= FirstSeenScore(SourceOf(Messages[b]))

\* A run in which the two orders differ: the document returned second has
\* the lower best score.
OrderedByFirstSeenScoreWitness ==
    /\ Retrieved
    /\ Len(Messages) = 2
    /\ BestScore(SourceOf(Messages[2])) < BestScore(SourceOf(Messages[1]))
    /\ FirstSeenScore(SourceOf(Messages[1])) < FirstSeenScore(SourceOf(Messages[2]))

\* C7: the searches issued are one per entry of query_variations, in input
\* order, each with k = max_returned_search (all of them once retrieval has
\* returned); the question is searched for only where it is a variation.
OneSearchPerVariation ==
    LET query_variations == PyGet(ctx, QUERY_VARIATIONS, <<>>)
    IN  /\ Len(calls) <= Len(query_variations)
        /\ \A n \in 1..Len(calls) :
               /\ n <= Len(query_variations)
               /\ calls[n].query = query_variations[n]
               /\ calls[n].k = max_returned_search
               /\ calls[n].query = ctx[QUESTION] =>
                      \E m \in 1..Len(query_variations) :
                          query_variations[m] = ctx[QUESTION]
        /\ Retrieved => Len(calls) = Len(query_variations)

\* Retrieval returned after two searches, none of them for the question.
OneSearchPerVariationWitness ==
    /\ Retrieved
    /\ Len(calls) = 2
    /\ \A n \in 1..2 : calls[n].query # ctx[QUESTION]
    /\ all_retrieved_docs # <<>>

\* C8 as stated: in the scenario the ranked list handed to synthesis is
\* exactly [conv1-4].
E2EYieldsOnlyNearest ==
    Retrieved => Messages = <<Document("conv1-4")>>

\* C8 as amended: in the scenario one search with k = 10 is issued and the
\* ranked list holds the three chunks, conv1-4 first, the two others after
\* it by ascending score.
E2EYieldsAllRanked ==
    Retrieved =>
        /\ calls = <<[query |-> E2EVariation, k |-> DefaultMaxReturnedSearch]>>
        /\ Len(Messages) = 3
        /\ Messages[1] = Document("conv1-4")
        /\ {SourceOf(Messages[a]) : a \in 1..3} = E2EChunks
        /\ \A a \in 1..2 : FirstSeenScore(SourceOf(Messages[a]))
                               <= FirstSeenScore(SourceOf(Messages[a + 1]))

\* The scenario has run to the end of synthesis, the two farther chunks at
\* different distances.
E2EWitness ==
    /\ stage = "Done"
    /\ Retrieved
    /\ Len(Messages) = 3
    /\ SourceOf(Messages[1]) = "conv1-4"
    /\ FirstSeenScore(SourceOf(Messages[2])) < FirstSeenScore(SourceOf(Messages[3]))

\* C9: an answer formulated from an empty retrieved_messages list is the
\* refusal sentence, whatever the chat model returned.
RefusalOnEmpty ==
    (ANSWER \in DOMAIN ctx /\ PyGet(ctx, RETRIEVED_MESSAGES, <<>>) = <<>>) =>
        ctx[ANSWER] = RefusalSentence

(***************************************************************************)
(* Properties of a pipeline run.                                           *)
(***************************************************************************)
RequestsOf(st) == {n \in 1..Len(llm_requests) : llm_requests[n].stage = st}

\* The stage changes only forward by one, or to Failed.
StageStep ==
    stage' # stage =>
        \/ stage = "Expanding" /\ stage' = "Retrieving"
        \/ stage = "Retrieving" /\ stage' = "Synthesizing"
        \/ stage = "Synthesizing" /\ stage' = "Done"
        \/ stage \in Stages /\ stage' = "Failed"

\* A stage is entered with the output of the stage before it; a failure is
\* recorded in Failed only, and no call of a later stage follows it; no
\* external call of a stage is made twice.
StageGates ==
    /\ stage \in {"Retrieving", "Synthesizing", "Done"} => QUERY_VARIATIONS \in DOMAIN ctx
    /\ stage \in {"Synthesizing", "Done"} => Retrieved
    /\ stage = "Done" <=> ANSWER \in DOMAIN ctx
    /\ stage = "Failed" <=> error # "none"
    /\ error = "Expanding" => calls = <<>> /\ QUERY_VARIATIONS \notin DOMAIN ctx
    /\ error \in {"Expanding", "Retrieving"} =>
           ~Retrieved /\ RequestsOf("Synthesizing") = {}
    /\ stage = "Expanding" => llm_requests = <<>> /\ calls = <<>>
    /\ stage = "Retrieving" => RequestsOf("Synthesizing") = {}
    /\ Cardinality(RequestsOf("Expanding")) <= 1
    /\ Cardinality(RequestsOf("Synthesizing")) <= 1
    /\ Len(calls) <= Len(PyGet(ctx, QUERY_VARIATIONS, <<>>))

\* C10: a pipeline run moves through Expanding, Retrieving, Synthesizing,
\* Done in that order, each stage entered after the one before it returned;
\* a failure ends the run in Failed, where nothing runs any more; no stage
\* runs twice; the run ends in Done or Failed.
PipelineLifecycle ==
    /\ [][StageStep /\ stage \notin {"Done", "Failed"}]_vars
    /\ []StageGates
    /\ <>(stage \in {"Done", "Failed"})

\* A run that went through two searches and ended in Done.
PipelineWitness ==
    /\ stage = "Done"
    /\ Len(calls) = 2
    /\ Cardinality(RequestsOf("Expanding")) = 1
    /\ Cardinality(RequestsOf("Synthesizing")) = 1

(***************************************************************************)
(* Properties of the stages: failures and the context.                     *)
(***************************************************************************)
\* C11: when an external call of a stage raises, the stage ends with the
\* error and returns no context: the run is Failed, the context is the one
\* the stage was given, without the stage's field; a failed search leaves no
\* retrieved_messages although earlier searches were pooled, a failed
\* expansion leaves no query_variations.
FailurePropagates ==
    error # "none" =>
        /\ stage = "Failed"
        /\ ctx = input_after
        /\ OwnField(error) \notin DOMAIN ctx
        /\ error = "Expanding" => output = <<>> /\ calls = <<>>
        /\ error = "Retrieving" => top_docs = <<>> /\ (output = <<>> \/ output[1] = "Expanding")
        /\ error = "Synthesizing" => (output = <<>> \/ output[1] # "Synthesizing")

\* The second search of a run raised after the first had returned tuples.
FailurePropagatesWitness ==
    /\ error = "Retrieving"
    /\ Len(calls) = 2
    /\ all_retrieved_docs # <<>>
    /\ RETRIEVED_MESSAGES \notin DOMAIN ctx

\* C12: a stage returns a context in which every field of the context it was
\* given, other than its own output field, is present with the same value,
\* and the mapping it was given is as it was.
FrameEffect ==
    [][(stage \in Stages) =>
          ((\A x \in (DOMAIN ctx) \ {OwnField(stage)} :
                 (x \in DOMAIN ctx') /\ (ctx'[x] = ctx[x]))
           /\ ((stage' # stage) => (input_after' = ctx)))]_vars

\* Synthesis returned on a context that held the three other fields.
FrameEffectWitness ==
    /\ stage = "Done"
    /\ DOMAIN ctx = {QUESTION, QUERY_VARIATIONS, RETRIEVED_MESSAGES, ANSWER}
    /\ DOMAIN input_after = {QUESTION, QUERY_VARIATIONS, RETRIEVED_MESSAGES}
    /\ \A x \in DOMAIN input_after : ctx[x] = input_after[x]
    /\ Len(ctx[QUERY_VARIATIONS]) = 2

\* C14: the value of a stage's own field in the context it returned is the
\* value that invocation computed, also when the context given already held a
\* value under that field.
OwnFieldIsComputed ==
    output # <<>> =>
        /\ OwnField(output[1]) \in DOMAIN ctx
        /\ ctx[OwnField(output[1])] = output[2]

(***************************************************************************)
(* Properties of the async retrieval path.                                 *)
(***************************************************************************)
\* The results returned to the searches of a call, in the order they returned.
RECURSIVE ResultsAsReturned(_)
ResultsAsReturned(returned_to) ==
    IF returned_to = <<>> THEN <<>>
    ELSE returned_to[1][2] \o ResultsAsReturned(Tail(returned_to))

\* The results returned to the searches of a call, in the order of its
\* query_variations, from variation n on.
RECURSIVE ResultsInInputOrder(_, _)
ResultsInInputOrder(req, n) ==
    IF n > Len(req.query_variations) THEN <<>>
    ELSE LET of_n == {m \in 1..Len(req.returned_to) : req.returned_to[m][1] = n}
         IN  (IF of_n = {} THEN <<>>
              ELSE req.returned_to[CHOOSE m \in of_n : TRUE][2])
             \o ResultsInInputOrder(req, n + 1)

SearchesReturned(req) == {req.returned_to[m][1] : m \in 1..Len(req.returned_to)}

\* C13: on the async path the kept duplicates and the order of
\* retrieved_messages are those of the results taken in the order of
\* query_variations, whatever the order in which searches completed, and the
\* merge is made only once every search of the request has returned.
InputOrderDecides ==
    \A r \in AsyncRequests :
        /\ requests[r].status = "returned" =>
              /\ requests[r].pending = {}
              /\ SearchesReturned(requests[r]) = 1..Len(requests[r].query_variations)
              /\ requests[r].retrieved_messages =
                     ProcessDocuments(ResultsInInputOrder(requests[r], 1), top_k_results)
        /\ requests[r].status # "returned" => requests[r].retrieved_messages = <<>>

\* A request returned two messages after two searches met the same source:
\* the first with score 9, the second with score 1.
InputOrderDecidesWitness ==
    \E r \in AsyncRequests :
        /\ requests[r].status = "returned"
        /\ Len(requests[r].returned_to) = 2
        /\ Len(requests[r].all_retrieved_docs) = 3
        /\ requests[r].all_retrieved_docs[1][2] = 9
        /\ Len(requests[r].retrieved_messages) = 2

\* C15: with several requests interleaved in one MessageRetrieval, a request
\* returns what the results of its own searches give when it runs alone,
\* whether the other requests run, returned, failed or were cancelled.
RequestsIsolated ==
    \A r \in AsyncRequests :
        /\ requests[r].all_retrieved_docs = ResultsAsReturned(requests[r].returned_to)
        /\ requests[r].status = "returned" =>
              requests[r].retrieved_messages =
                  ProcessDocuments(ResultsAsReturned(requests[r].returned_to), top_k_results)

\* A request returned its messages while another request, whose first search
\* had returned tuples, failed or was cancelled in its second search.
RequestsIsolatedWitness ==
    \E r, q \in AsyncRequests :
        /\ r # q
        /\ requests[r].status = "returned"
        /\ Len(requests[r].retrieved_messages) = 1
        /\ requests[q].status \in {"failed", "cancelled"}
        /\ Len(requests[q].all_retrieved_docs) = 2
        /\ requests[q].pending # {}

(***************************************************************************)
(* Properties of the embeddings wrapper.                                   *)
(***************************************************************************)
\* The strings of the batches of a call, in order.
RECURSIVE Flatten(_)
Flatten(batches) ==
    IF batches = <<>> THEN <<>> ELSE batches[1] \o Flatten(Tail(batches))

\* C16: embed_query and aembed_query send exactly "search_query: " followed
\* by the text, embed_documents sends exactly "search_document: " followed
\* by each document text; a query is never sent with the document prefix.
RolePrefixExact ==
    \A n \in 1..Len(embed_log) :
        LET call == embed_log[n]
        IN  IF call.method \in {"embed_query", "aembed_query"}
            THEN Flatten(call.sent) = <<"search_query: " \o call.given[1]>>
            ELSE Flatten(call.sent) =
                     [m \in 1..Len(call.given) |-> "search_document: " \o call.given[m]]

(***************************************************************************)
(* Properties of ingestion.                                                *)
(***************************************************************************)
AssignedSource(n) == PyGet(texts[n].metadata, SOURCE, "")

\* C17: every chunk handled by the loop has the source id
\* <conversation id>-<index>, with 'blank' for a missing conversation id, and
\* no two chunks of the run have the same source id.
SourceIdsUnique ==
    /\ enum_i <= Len(texts)
    /\ \A n \in 1..Min(enum_i, Len(texts)) :
          /\ AssignedSource(n) =
                 PyGet(texts[n].metadata, CHAT_ID, "blank") \o "-" \o Decimal(n - 1)
          /\ \A m \in 1..Min(enum_i, Len(texts)) :
                 m # n => AssignedSource(m) # AssignedSource(n)

\* Four chunks were given ids: two of one conversation, one of a conversation
\* named "blank" and one without conversation id.
SourceIdsUniqueWitness ==
    /\ enum_i = 4
    /\ Len(texts) = 4
    /\ PyGet(texts[1].metadata, CHAT_ID, "") = "c-1"
    /\ PyGet(texts[2].metadata, CHAT_ID, "") = "c-1"
    /\ CHAT_ID \notin DOMAIN texts[3].metadata
    /\ AssignedSource(3) = "blank-2"
    /\ PyGet(texts[4].metadata, CHAT_ID, "") = "blank"
    /\ AssignedSource(4) = "blank-3"

(***************************************************************************)
(* Properties of the loader.                                               *)
(***************************************************************************)
\* The paths the traversal has left behind, in traversal order.
RECURSIVE PathsOfDirs(_)
PathsOfDirs(dirs) ==
    IF dirs = <<>> THEN <<>>
    ELSE (IF dirs[1].exists THEN dirs[1].file_paths ELSE <<>>) \o PathsOfDirs(Tail(dirs))

Traversed ==
    PathsOfDirs(SubSeq(data_dir, 1, Min(dir_i, Len(data_dir))))
    \o (IF dir_i < Len(data_dir) /\ data_dir[dir_i + 1].exists
        THEN SubSeq(data_dir[dir_i + 1].file_paths, 1,
                    Min(file_i, Len(data_dir[dir_i + 1].file_paths)))
        ELSE <<>>)

RECURSIVE DocumentsOf(_)
DocumentsOf(paths) ==
    IF paths = <<>> THEN <<>>
    ELSE (IF paths[1].is_file /\ ParseFile(paths[1]).raised = "none"
          THEN <<ParseFile(paths[1]).document>> ELSE <<>>)
         \o DocumentsOf(Tail(paths))

RECURSIVE FailuresOf(_)
FailuresOf(paths) ==
    IF paths = <<>> THEN <<>>
    ELSE (IF paths[1].is_file /\ ParseFile(paths[1]).raised # "none"
          THEN <<paths[1].name>> ELSE <<>>)
         \o FailuresOf(Tail(paths))

RECURSIVE ErrorsLogged(_)
ErrorsLogged(log) ==
    IF log = <<>> THEN <<>>
    ELSE (IF log[1].level = "error" THEN <<log[1].about>> ELSE <<>>)
         \o ErrorsLogged(Tail(log))

\* C18: in lazy_load a file whose parsing fails (invalid JSON or any other
\* exception) is logged and yields nothing, and the traversal goes on: the
\* documents yielded are exactly those of the files traversed that parsed
\* without error, in traversal order, and the errors logged are those of the
\* files that failed.
LoaderIsolatesFailures ==
    /\ yielded = DocumentsOf(Traversed)
    /\ ErrorsLogged(logged) = FailuresOf(Traversed)

\* The traversal ended: a file that is not JSON in the first directory, and
\* in the second a file whose thread path is missing, then a file that
\* parses, which was yielded.
LoaderIsolatesFailuresWitness ==
    /\ Len(data_dir) = 2
    /\ dir_i = 2
    /\ ErrorsLogged(logged) = <<"bad.json", "nopath.json">>
    /\ Len(data_dir[2].file_paths) = 2
    /\ data_dir[2].file_paths[1].name = "nopath.json"
    /\ Len(yielded) = 1
    /\ yielded[1].page_content = "A (1): hi\nB (2): yo\n"
    /\ yielded[1].metadata = [x \in {CHAT_ID} |-> "c-1"]

====
